---- MODULE Spec2Model ----
(***************************************************************************)
(* State-machine model of uring_sendmsg.c: the main sequence (main), the   *)
(* fault-handler thread (uffd_thread) and the consumer of the submission   *)
(* ring (the io_uring request processing described in the file's header    *)
(* comment: the opcode of the SQE is read more than once, with an access   *)
(* to the message's io vector in between).                                 *)
(***************************************************************************)
EXTENDS Integers, Sequences, FiniteSets, TLC

\* ---- program constants ----
Entries == 10          \* io_uring_setup(entries = 10)
ToSubmit == 1          \* io_uring_enter(to_submit = 1)
MinComplete == 1       \* io_uring_enter(min_complete = 1)
ExpectedCqTail == 1    \* if (cq_tail != 1) errx(...)
MsgbufLen == 32        \* sizeof(msgbuf): 16 + 8 + 4 + 4 bytes, packed
ExitFailure == 1       \* err(1, ...), errx(1, ...)
ExitSuccess == 0       \* main falls off its end

Slots == 0 .. (Entries - 1)

\* result codes the consumer may post in a completion record
Results == {-1, 0, MsgbufLen}

ZeroSqe == [opcode |-> "NOP", fd |-> "none", addr |-> "NULL", user_data |-> 0]
ZeroCqe == [written |-> FALSE, user_data |-> 0, res |-> 0]
ZeroIov == [iov_base |-> "NULL", iov_len |-> 0]

VARIABLES
  \* the process
  alive,          \* FALSE once exit() ran (err, errx or return from main)
  exit_code,      \* the process exit code, meaningful once ~alive
  output,         \* what was printed, in order (stdout and stderr together)
  failed_step,    \* the step whose failure ended the process, "" if none
  \* main
  mpc,            \* position of main
  submitted,      \* main's local `submitted`
  cq_tail,        \* main's local `cq_tail`
  \* uffd_thread
  tpc,            \* position of uffd_thread
  res,            \* uffd_thread's local `res`: "none", "full" or "short"
  vec,            \* uffd_thread's local `vec.iov`
  \* shared memory
  sqes,           \* the submission descriptors
  sq_array,       \* the submission index array
  sq_tail,        \* submission ring tail
  sq_head,        \* submission ring head (advanced by the consumer)
  cq_ring_tail,   \* completion ring tail
  cqes,           \* the completion records
  real_iov,       \* static struct iovec real_iov
  region,         \* the trap page `iov`: "none", "mapped", "armed", "populated"
  region_data,    \* the io vector stored in the trap page
  fault_pending,  \* a fault message waits to be read from uffd
  \* the consumer
  cpc,            \* position of the consumer
  first_kind,     \* the kind the consumer read first
  second_kind,    \* the kind the consumer read after it resumed
  c_iov,          \* the io vector the consumer read from the trap page
  \* instrumentation: monotonic sequence counters of the three harness steps
  clock, fault_seq, mutate_seq, populate_seq,
  tail_writes,    \* how often the submission tail was advanced
  cqe_reads       \* how often main read a completion record

procVars == <<alive, exit_code, output, failed_step>>
mainVars == <<mpc, submitted, cq_tail>>
threadVars == <<tpc, res, vec>>
sqVars == <<sqes, sq_array, sq_tail, sq_head>>
cqVars == <<cq_ring_tail, cqes>>
trapVars == <<region, region_data, fault_pending>>
consVars == <<cpc, first_kind, second_kind, c_iov>>
seqVars == <<clock, fault_seq, mutate_seq, populate_seq>>
countVars == <<tail_writes, cqe_reads>>

vars == <<procVars, mainVars, threadVars, sqVars, cqVars, real_iov, trapVars,
          consVars, seqVars, countVars>>

Init ==
  /\ alive = TRUE /\ exit_code = ExitSuccess /\ output = <<>> /\ failed_step = ""
  /\ mpc = "io_uring_setup" /\ submitted = 0 /\ cq_tail = 0
  /\ tpc = "not_started" /\ res = "none" /\ vec = ZeroIov
  /\ sqes = [i \in Slots |-> ZeroSqe]
  /\ sq_array = [i \in Slots |-> 0]
  /\ sq_tail = 0 /\ sq_head = 0
  /\ cq_ring_tail = 0 /\ cqes = [i \in Slots |-> ZeroCqe]
  /\ real_iov = ZeroIov
  /\ region = "none" /\ region_data = ZeroIov /\ fault_pending = FALSE
  /\ cpc = "idle" /\ first_kind = "none" /\ second_kind = "none" /\ c_iov = ZeroIov
  /\ clock = 0 /\ fault_seq = 0 /\ mutate_seq = 0 /\ populate_seq = 0
  /\ tail_writes = 0 /\ cqe_reads = 0

Msg(tag, val) == [tag |-> tag, val |-> val]

\* mutant: the process exits without printing which step failed
Err_silent(step) ==
  /\ alive' = FALSE
  /\ exit_code' = ExitFailure
  /\ output' = output
  /\ failed_step' = step

\* err(1, ...) / errx(1, ...): print the message and exit the whole process
\* at once; nothing else is done on the way out.
Err(step) ==
  /\ alive' = FALSE
  /\ exit_code' = ExitFailure
  /\ output' = Append(output, Msg("error", step))
  /\ failed_step' = step

\* SYSCHK(x): the call either returns -1, and the process exits through
\* err(1, ...), or it succeeded and main goes on to `next`.
SYSCHK(step, ok, next) ==
  IF ok
    THEN /\ mpc' = next
         /\ UNCHANGED procVars
    ELSE /\ Err(step)
         /\ UNCHANGED mpc

\* ---- main: ring set-up (lines 88-92) ----
io_uring_setup ==
  /\ alive /\ mpc = "io_uring_setup"
  /\ \E ok \in BOOLEAN : SYSCHK("io_uring_setup", ok, "mmap_sq_ring")
  /\ UNCHANGED <<submitted, cq_tail, threadVars, sqVars, cqVars, real_iov,
                 trapVars, consVars, seqVars, countVars>>

mmap_sq_ring ==
  /\ alive /\ mpc = "mmap_sq_ring"
  /\ \E ok \in BOOLEAN : SYSCHK("mmap_sq_ring", ok, "mmap_cq_ring")
  /\ UNCHANGED <<submitted, cq_tail, threadVars, sqVars, cqVars, real_iov,
                 trapVars, consVars, seqVars, countVars>>

mmap_cq_ring ==
  /\ alive /\ mpc = "mmap_cq_ring"
  /\ \E ok \in BOOLEAN : SYSCHK("mmap_cq_ring", ok, "mmap_sqes")
  /\ UNCHANGED <<submitted, cq_tail, threadVars, sqVars, cqVars, real_iov,
                 trapVars, consVars, seqVars, countVars>>

mmap_sqes ==
  /\ alive /\ mpc = "mmap_sqes"
  /\ \E ok \in BOOLEAN : SYSCHK("mmap_sqes", ok, "mmap_iov")
  /\ UNCHANGED <<submitted, cq_tail, threadVars, sqVars, cqVars, real_iov,
                 trapVars, consVars, seqVars, countVars>>

\* ---- main: the trap page (lines 94-103) ----
mmap_iov ==
  /\ alive /\ mpc = "mmap_iov"
  /\ \E ok \in BOOLEAN :
       /\ SYSCHK("mmap_iov", ok, "userfaultfd")
       /\ region' = IF ok THEN "mapped" ELSE region
  /\ UNCHANGED <<submitted, cq_tail, threadVars, sqVars, cqVars, real_iov,
                 region_data, fault_pending, consVars, seqVars, countVars>>

userfaultfd ==
  /\ alive /\ mpc = "userfaultfd"
  /\ \E ok \in BOOLEAN : SYSCHK("userfaultfd", ok, "uffdio_api")
  /\ UNCHANGED <<submitted, cq_tail, threadVars, sqVars, cqVars, real_iov,
                 trapVars, consVars, seqVars, countVars>>

uffdio_api ==
  /\ alive /\ mpc = "uffdio_api"
  /\ \E ok \in BOOLEAN : SYSCHK("UFFDIO_API", ok, "uffdio_register")
  /\ UNCHANGED <<submitted, cq_tail, threadVars, sqVars, cqVars, real_iov,
                 trapVars, consVars, seqVars, countVars>>

\* mutant: the result of UFFDIO_REGISTER is not checked
uffdio_register_unchecked ==
  /\ alive /\ mpc = "uffdio_register"
  /\ \E ok \in BOOLEAN :
       /\ mpc' = "pthread_create"
       /\ region' = IF ok THEN "armed" ELSE region
  /\ UNCHANGED <<procVars, submitted, cq_tail, threadVars, sqVars, cqVars,
                 real_iov, region_data, fault_pending, consVars, seqVars,
                 countVars>>

uffdio_register ==
  /\ alive /\ mpc = "uffdio_register"
  /\ \E ok \in BOOLEAN :
       /\ SYSCHK("UFFDIO_REGISTER", ok, "pthread_create")
       /\ region' = IF ok THEN "armed" ELSE region
  /\ UNCHANGED <<submitted, cq_tail, threadVars, sqVars, cqVars, real_iov,
                 region_data, fault_pending, consVars, seqVars, countVars>>

\* mutant: main goes on without having started the thread
pthread_create_skipped ==
  /\ alive /\ mpc = "pthread_create"
  /\ mpc' = "socket"
  /\ UNCHANGED <<procVars, submitted, cq_tail, threadVars, sqVars, cqVars,
                 real_iov, trapVars, consVars, seqVars, countVars>>

\* pthread_create: starts uffd_thread, or fails and errx(1, "pthread_create")
pthread_create ==
  /\ alive /\ mpc = "pthread_create"
  /\ \E ok \in BOOLEAN :
       /\ SYSCHK("pthread_create", ok, "socket")
       /\ tpc' = IF ok THEN "read" ELSE tpc
  /\ UNCHANGED <<submitted, cq_tail, res, vec, sqVars, cqVars, real_iov,
                 trapVars, consVars, seqVars, countVars>>

\* ---- main: the message (lines 108-144) ----
socket ==
  /\ alive /\ mpc = "socket"
  /\ \E ok \in BOOLEAN : SYSCHK("socket", ok, "set_iov_base")
  /\ UNCHANGED <<submitted, cq_tail, threadVars, sqVars, cqVars, real_iov,
                 trapVars, consVars, seqVars, countVars>>

\* real_iov.iov_base = &msgbuf;
set_iov_base ==
  /\ alive /\ mpc = "set_iov_base"
  /\ real_iov' = [real_iov EXCEPT !.iov_base = "msgbuf"]
  /\ mpc' = "set_iov_len"
  /\ UNCHANGED <<procVars, submitted, cq_tail, threadVars, sqVars, cqVars,
                 trapVars, consVars, seqVars, countVars>>

\* real_iov.iov_len = sizeof(msgbuf);
set_iov_len ==
  /\ alive /\ mpc = "set_iov_len"
  /\ real_iov' = [real_iov EXCEPT !.iov_len = MsgbufLen]
  /\ mpc' = "write_sqe"
  /\ UNCHANGED <<procVars, submitted, cq_tail, threadVars, sqVars, cqVars,
                 trapVars, consVars, seqVars, countVars>>

\* ---- main: submission (lines 146-154) ----
\* sqes[0] = (struct io_uring_sqe) { .opcode = IORING_OP_RECVMSG, .fd = sock,
\* .addr = &msg }; every other field, user_data included, is zero.
write_sqe ==
  /\ alive /\ mpc = "write_sqe"
  /\ sqes' = [sqes EXCEPT ![0] = [opcode |-> "RECVMSG", fd |-> "sock",
                                  addr |-> "msg", user_data |-> 0]]
  /\ mpc' = "write_sq_array"
  /\ UNCHANGED <<procVars, submitted, cq_tail, threadVars, sq_array, sq_tail,
                 sq_head, cqVars, real_iov, trapVars, consVars, seqVars,
                 countVars>>

\* ((int*)(sq_ring + params.sq_off.array))[0] = 0;
write_sq_array ==
  /\ alive /\ mpc = "write_sq_array"
  /\ sq_array' = [sq_array EXCEPT ![0] = 0]
  /\ mpc' = "advance_sq_tail"
  /\ UNCHANGED <<procVars, submitted, cq_tail, threadVars, sqes, sq_tail,
                 sq_head, cqVars, real_iov, trapVars, consVars, seqVars,
                 countVars>>

\* mutant: the tail is advanced past a slot that was never written
advance_sq_tail_twice ==
  /\ alive /\ mpc = "advance_sq_tail"
  /\ sq_tail' = sq_tail + 2
  /\ tail_writes' = tail_writes + 1
  /\ mpc' = "io_uring_enter"
  /\ UNCHANGED <<procVars, submitted, cq_tail, threadVars, sqes, sq_array,
                 sq_head, cqVars, real_iov, trapVars, consVars, seqVars,
                 cqe_reads>>

\* (*(int*)(sq_ring + params.sq_off.tail))++;
advance_sq_tail ==
  /\ alive /\ mpc = "advance_sq_tail"
  /\ sq_tail' = sq_tail + 1
  /\ tail_writes' = tail_writes + 1
  /\ mpc' = "io_uring_enter"
  /\ UNCHANGED <<procVars, submitted, cq_tail, threadVars, sqes, sq_array,
                 sq_head, cqVars, real_iov, trapVars, consVars, seqVars,
                 cqe_reads>>

\* The io_uring_enter call: it fails at once (-1, err), or main is inside the
\* call, which submits ToSubmit descriptors and waits for MinComplete
\* completions.
io_uring_enter ==
  /\ alive /\ mpc = "io_uring_enter"
  /\ \E ok \in BOOLEAN : SYSCHK("io_uring_enter", ok, "in_enter")
  /\ UNCHANGED <<submitted, cq_tail, threadVars, sqVars, cqVars, real_iov,
                 trapVars, consVars, seqVars, countVars>>

\* io_uring_enter returns once MinComplete completions are posted;
\* printf("submitted %d, getevents done\n", submitted);
enter_return ==
  /\ alive /\ mpc = "in_enter"
  /\ sq_head > 0
  /\ cq_ring_tail >= MinComplete
  /\ submitted' = sq_head
  /\ output' = Append(output, Msg("submitted", sq_head))
  /\ mpc' = "read_cq_tail"
  /\ UNCHANGED <<alive, exit_code, failed_step, cq_tail, threadVars, sqVars,
                 cqVars, real_iov, trapVars, consVars, seqVars, countVars>>

\* The wait inside io_uring_enter is interruptible: once the descriptor was
\* submitted the call may return the submitted count before any completion
\* was posted. Line 158 is the program's guard against this return.
enter_interrupted ==
  /\ alive /\ mpc = "in_enter"
  /\ sq_head > 0
  /\ cq_ring_tail < MinComplete
  /\ submitted' = sq_head
  /\ output' = Append(output, Msg("submitted", sq_head))
  /\ mpc' = "read_cq_tail"
  /\ UNCHANGED <<alive, exit_code, failed_step, cq_tail, threadVars, sqVars,
                 cqVars, real_iov, trapVars, consVars, seqVars, countVars>>

\* ---- main: the completion (lines 156-165) ----
\* mutant: main consumes the completion by rewinding the completion tail
read_cq_tail_rewinding ==
  /\ alive /\ mpc = "read_cq_tail"
  /\ cq_tail' = cq_ring_tail
  /\ cq_ring_tail' = 0
  /\ output' = Append(output, Msg("cq_tail", cq_ring_tail))
  /\ mpc' = "check_cq_tail"
  /\ UNCHANGED <<alive, exit_code, failed_step, submitted, threadVars, sqVars,
                 cqes, real_iov, trapVars, consVars, seqVars, countVars>>

\* int cq_tail = *(int*)(cq_ring + params.cq_off.tail); printf(...);
read_cq_tail ==
  /\ alive /\ mpc = "read_cq_tail"
  /\ cq_tail' = cq_ring_tail
  /\ output' = Append(output, Msg("cq_tail", cq_ring_tail))
  /\ mpc' = "check_cq_tail"
  /\ UNCHANGED <<alive, exit_code, failed_step, submitted, threadVars, sqVars,
                 cqVars, real_iov, trapVars, consVars, seqVars, countVars>>

\* mutant: the completion tail is not checked before the record is read
check_cq_tail_unchecked ==
  /\ alive /\ mpc = "check_cq_tail"
  /\ mpc' = "report"
  /\ UNCHANGED <<procVars, submitted, cq_tail, threadVars, sqVars, cqVars,
                 real_iov, trapVars, consVars, seqVars, countVars>>

\* if (cq_tail != 1) errx(1, "expected cq_tail==1");
check_cq_tail ==
  /\ alive /\ mpc = "check_cq_tail"
  /\ SYSCHK("expected cq_tail==1", cq_tail = ExpectedCqTail, "report")
  /\ UNCHANGED <<submitted, cq_tail, threadVars, sqVars, cqVars, real_iov,
                 trapVars, consVars, seqVars, countVars>>

\* mutant: main returns nonzero when the result code is negative
report_returns_res ==
  /\ alive /\ mpc = "report"
  /\ cqe_reads' = cqe_reads + 1
  /\ output' = Append(output,
        Msg(IF cqes[0].res < 0 THEN "result_error" ELSE "result", cqes[0].res))
  /\ mpc' = "returned"
  /\ alive' = FALSE
  /\ exit_code' = IF cqes[0].res < 0 THEN ExitFailure ELSE ExitSuccess
  /\ UNCHANGED <<failed_step, submitted, cq_tail, threadVars, sqVars, cqVars,
                 real_iov, trapVars, consVars, seqVars, tail_writes>>

\* cqe = cq_ring + params.cq_off.cqes (slot 0); print cqe->res on either
\* branch of `cqe->res < 0`; main then falls off its end: exit code 0.
report ==
  /\ alive /\ mpc = "report"
  /\ cqe_reads' = cqe_reads + 1
  /\ output' = Append(output,
        Msg(IF cqes[0].res < 0 THEN "result_error" ELSE "result", cqes[0].res))
  /\ mpc' = "returned"
  /\ alive' = FALSE
  /\ exit_code' = ExitSuccess
  /\ UNCHANGED <<failed_step, submitted, cq_tail, threadVars, sqVars, cqVars,
                 real_iov, trapVars, consVars, seqVars, tail_writes>>

main ==
  \/ io_uring_setup \/ mmap_sq_ring \/ mmap_cq_ring \/ mmap_sqes
  \/ mmap_iov \/ userfaultfd \/ uffdio_api \/ uffdio_register
  \/ pthread_create \/ socket \/ set_iov_base \/ set_iov_len
  \/ write_sqe \/ write_sq_array \/ advance_sq_tail \/ io_uring_enter
  \/ enter_return \/ enter_interrupted \/ read_cq_tail \/ check_cq_tail
  \/ report

\* ---- uffd_thread (lines 63-84) ----
\* mutant: the read does not wait for a fault message (a descriptor opened
\* non-blocking whose empty read is taken for a message)
uffd_read_nonblocking ==
  /\ alive /\ tpc = "read"
  /\ fault_pending' = FALSE
  /\ res' = "full"
  /\ tpc' = "check_res"
  /\ clock' = clock + 1
  /\ fault_seq' = clock + 1
  /\ UNCHANGED <<procVars, mainVars, vec, sqVars, cqVars, real_iov, region,
                 region_data, consVars, mutate_seq, populate_seq, countVars>>

\* int res = SYSCHK(read(uffd, &msg, sizeof(msg))): the read fails (-1, err),
\* or it blocks until a fault message is queued and returns it, whole or
\* short.
uffd_read ==
  /\ alive /\ tpc = "read"
  /\ \E outcome \in {"fail", "full", "short"} :
       IF outcome = "fail"
         THEN /\ Err("read(uffd)")
              /\ UNCHANGED <<tpc, res, fault_pending, clock, fault_seq>>
         ELSE /\ fault_pending
              /\ fault_pending' = FALSE
              /\ res' = outcome
              /\ tpc' = "check_res"
              /\ clock' = clock + 1
              /\ fault_seq' = clock + 1
              /\ UNCHANGED procVars
  /\ UNCHANGED <<mainVars, vec, sqVars, cqVars, real_iov, region, region_data,
                 consVars, mutate_seq, populate_seq, countVars>>

\* if (res != sizeof(msg)) errx(1, "uffd read");
\* printf("got userfaultfd message\n");
uffd_check_res ==
  /\ alive /\ tpc = "check_res"
  /\ IF res = "full"
       THEN /\ output' = Append(output, Msg("got userfaultfd message", 0))
            /\ tpc' = "mutate"
            /\ UNCHANGED <<alive, exit_code, failed_step>>
       ELSE /\ Err("uffd read")
            /\ UNCHANGED tpc
  /\ UNCHANGED <<mainVars, res, vec, sqVars, cqVars, real_iov, trapVars,
                 consVars, seqVars, countVars>>

\* mutant: the thread goes on without overwriting the kind
uffd_mutate_skipped ==
  /\ alive /\ tpc = "mutate"
  /\ tpc' = "load_vec"
  /\ UNCHANGED <<procVars, mainVars, res, vec, sqVars, cqVars, real_iov,
                 trapVars, consVars, seqVars, countVars>>

\* mutant: the kind is overwritten only after the page was populated
uffd_mutate_late ==
  /\ alive /\ tpc \in {"mutate", "return"}
  /\ IF tpc = "mutate"
       THEN /\ tpc' = "load_vec"
            /\ UNCHANGED <<sqes, clock, mutate_seq>>
       ELSE /\ sqes' = [sqes EXCEPT ![0].opcode = "SENDMSG"]
            /\ clock' = clock + 1
            /\ mutate_seq' = clock + 1
            /\ tpc' = "done"
  /\ UNCHANGED <<procVars, mainVars, res, vec, sq_array, sq_tail, sq_head,
                 cqVars, real_iov, trapVars, consVars, fault_seq, populate_seq,
                 countVars>>

\* sqes[0].opcode = IORING_OP_SENDMSG;
uffd_mutate ==
  /\ alive /\ tpc = "mutate"
  /\ sqes' = [sqes EXCEPT ![0].opcode = "SENDMSG"]
  /\ clock' = clock + 1
  /\ mutate_seq' = clock + 1
  /\ tpc' = "load_vec"
  /\ UNCHANGED <<procVars, mainVars, res, vec, sq_array, sq_tail, sq_head,
                 cqVars, real_iov, trapVars, consVars, fault_seq, populate_seq,
                 countVars>>

\* mutant: vec is initialised from real_iov while the thread still waits in
\* its read, not after the read returned
uffd_load_vec_early ==
  /\ alive /\ tpc \in {"read", "load_vec"}
  /\ IF tpc = "read"
       THEN /\ vec = ZeroIov /\ real_iov # ZeroIov
            /\ vec' = real_iov
            /\ UNCHANGED tpc
       ELSE /\ tpc' = "copy"
            /\ UNCHANGED vec
  /\ UNCHANGED <<procVars, mainVars, res, sqVars, cqVars, real_iov, trapVars,
                 consVars, seqVars, countVars>>

\* union { struct iovec iov; char pad[0x1000]; } vec = { .iov = real_iov };
uffd_load_vec ==
  /\ alive /\ tpc = "load_vec"
  /\ vec' = real_iov
  /\ tpc' = "copy"
  /\ UNCHANGED <<procVars, mainVars, res, sqVars, cqVars, real_iov, trapVars,
                 consVars, seqVars, countVars>>

\* mutant: the page is populated before the kind is overwritten
uffd_copy_before_mutate ==
  /\ alive /\ tpc = "mutate" /\ region = "armed"
  /\ region' = "populated"
  /\ region_data' = real_iov
  /\ clock' = clock + 1
  /\ populate_seq' = clock + 1
  /\ UNCHANGED <<procVars, mainVars, threadVars, sqVars, cqVars, real_iov,
                 fault_pending, consVars, fault_seq, mutate_seq, countVars>>

\* mutant: the ioctl is left out, the thread returns without populating
uffd_copy_no_release ==
  /\ alive /\ tpc = "copy"
  /\ tpc' = "return"
  /\ UNCHANGED <<procVars, mainVars, res, vec, sqVars, cqVars, real_iov,
                 trapVars, consVars, seqVars, countVars>>

\* mutant: the copy is issued again after it succeeded, and overwrites
uffd_copy_repeats ==
  /\ alive /\ tpc = "copy"
  /\ \E ok \in BOOLEAN :
       IF ok
         THEN /\ region' = "populated"
              /\ region_data' = real_iov
              /\ clock' = clock + 1
              /\ populate_seq' = clock + 1
              /\ tpc' = IF region = "armed" THEN "copy" ELSE "return"
              /\ UNCHANGED procVars
         ELSE /\ Err("UFFDIO_COPY")
              /\ UNCHANGED <<tpc, region, region_data, clock, populate_seq>>
  /\ UNCHANGED <<mainVars, res, vec, sqVars, cqVars, real_iov, fault_pending,
                 consVars, fault_seq, mutate_seq, countVars>>

\* SYSCHK(ioctl(uffd, UFFDIO_COPY, &copy)): the page is filled from vec and
\* every reader blocked on it is released; the ioctl fails on a page that is
\* not an armed, still missing page.
uffd_copy ==
  /\ alive /\ tpc = "copy"
  /\ \E ok \in BOOLEAN :
       IF ok /\ region = "armed"
         THEN /\ region' = "populated"
              /\ region_data' = vec
              /\ clock' = clock + 1
              /\ populate_seq' = clock + 1
              /\ tpc' = "return"
              /\ UNCHANGED procVars
         ELSE /\ Err("UFFDIO_COPY")
              /\ UNCHANGED <<tpc, region, region_data, clock, populate_seq>>
  /\ UNCHANGED <<mainVars, res, vec, sqVars, cqVars, real_iov, fault_pending,
                 consVars, fault_seq, mutate_seq, countVars>>

\* return NULL;
uffd_return ==
  /\ alive /\ tpc = "return"
  /\ tpc' = "done"
  /\ UNCHANGED <<procVars, mainVars, res, vec, sqVars, cqVars, real_iov,
                 trapVars, consVars, seqVars, countVars>>

uffd_thread ==
  \/ uffd_read \/ uffd_check_res \/ uffd_mutate \/ uffd_load_vec
  \/ uffd_copy \/ uffd_return

\* ---- the consumer of the ring (header comment, lines 1-26) ----
\* First fetch: while main is inside io_uring_enter the consumer takes the
\* descriptor the index array names and reads its kind.
consumer_fetch ==
  /\ alive /\ mpc = "in_enter" /\ cpc = "idle"
  /\ sq_head < sq_tail /\ sq_head < ToSubmit
  /\ first_kind' = sqes[sq_array[sq_head % Entries]].opcode
  /\ sq_head' = sq_head + 1
  /\ cpc' = "fetched"
  /\ UNCHANGED <<procVars, mainVars, threadVars, sqes, sq_array, sq_tail,
                 cqVars, real_iov, trapVars, second_kind, c_iov, seqVars,
                 countVars>>

\* The access to the message's io vector, which lies in the trap page: on an
\* armed, missing page the consumer blocks and a fault message is queued;
\* otherwise the read returns what the page holds.
consumer_touch ==
  /\ alive /\ cpc = "fetched"
  /\ IF region = "armed"
       THEN /\ cpc' = "blocked"
            /\ fault_pending' = TRUE
            /\ UNCHANGED c_iov
       ELSE /\ cpc' = "resumed"
            /\ c_iov' = region_data
            /\ UNCHANGED fault_pending
  /\ UNCHANGED <<procVars, mainVars, threadVars, sqVars, cqVars, real_iov,
                 region, region_data, first_kind, second_kind, seqVars,
                 countVars>>

\* population of the page releases the blocked consumer, which reads the
\* io vector the page now holds
consumer_resume ==
  /\ alive /\ cpc = "blocked" /\ region = "populated"
  /\ c_iov' = region_data
  /\ cpc' = "resumed"
  /\ UNCHANGED <<procVars, mainVars, threadVars, sqVars, cqVars, real_iov,
                 trapVars, first_kind, second_kind, seqVars, countVars>>

\* the second read of the kind, after the io vector was resolved
consumer_refetch ==
  /\ alive /\ cpc = "resumed"
  /\ second_kind' = sqes[sq_array[(sq_head - 1) % Entries]].opcode
  /\ cpc' = "acting"
  /\ UNCHANGED <<procVars, mainVars, threadVars, sqVars, cqVars, real_iov,
                 trapVars, first_kind, c_iov, seqVars, countVars>>

\* PostCqe: the completion record for descriptor `idx` with result `r` goes
\* to the slot the completion tail indexes, and the tail advances.
PostCqe(idx, r) ==
  /\ cqes' = [cqes EXCEPT ![cq_ring_tail % Entries] =
                [written |-> TRUE, user_data |-> sqes[idx].user_data, res |-> r]]
  /\ cq_ring_tail' = cq_ring_tail + 1

\* the request is carried out under the kind read last and its completion
\* is posted
consumer_complete ==
  /\ alive /\ cpc = "acting"
  /\ \E r \in Results : PostCqe(sq_array[(sq_head - 1) % Entries], r)
  /\ cpc' = "posted"
  /\ UNCHANGED <<procVars, mainVars, threadVars, sqVars, real_iov, trapVars,
                 first_kind, second_kind, c_iov, seqVars, countVars>>

\* a backend that completes the request without touching the io vector
consumer_fast_path ==
  /\ alive /\ cpc = "fetched"
  /\ \E r \in Results : PostCqe(sq_array[(sq_head - 1) % Entries], r)
  /\ cpc' = "posted"
  /\ UNCHANGED <<procVars, mainVars, threadVars, sqVars, real_iov, trapVars,
                 first_kind, second_kind, c_iov, seqVars, countVars>>

\* a backend that neither touches the io vector nor ever completes
consumer_stall ==
  /\ alive /\ cpc = "fetched"
  /\ cpc' = "stalled"
  /\ UNCHANGED <<procVars, mainVars, threadVars, sqVars, cqVars, real_iov,
                 trapVars, first_kind, second_kind, c_iov, seqVars, countVars>>

consumer ==
  \/ consumer_fetch \/ consumer_touch \/ consumer_resume \/ consumer_refetch
  \/ consumer_complete \/ consumer_fast_path \/ consumer_stall

Next == main \/ uffd_thread \/ consumer

Spec == Init /\ [][Next]_vars

\* ---- fairness ----
\* A step that does not fail. Fairness is stated for these and for the two
\* checks whose outcome the program's own state decides (lines 66 and 158): no
\* call is bound to fail, and the interruptible wait is not bound to be
\* interrupted.
NoFailure == failed_step' = failed_step

MainSteps ==
  \/ io_uring_setup \/ mmap_sq_ring \/ mmap_cq_ring \/ mmap_sqes
  \/ mmap_iov \/ userfaultfd \/ uffdio_api \/ uffdio_register
  \/ pthread_create \/ socket \/ set_iov_base \/ set_iov_len
  \/ write_sqe \/ write_sq_array \/ advance_sq_tail \/ io_uring_enter
  \/ enter_return \/ read_cq_tail \/ report

MainProgress == (MainSteps /\ NoFailure) \/ check_cq_tail

ThreadProgress == (uffd_thread /\ NoFailure) \/ uffd_check_res

\* the consumer is scheduled fairly; which way it takes at `fetched` (touch
\* the io vector, complete at once, or never complete) is its own choice
ConsumerProgress ==
  \/ consumer_fetch \/ consumer_resume \/ consumer_refetch \/ consumer_complete

FairSpec ==
  /\ Init /\ [][Next]_vars
  /\ WF_vars(MainProgress)
  /\ WF_vars(ThreadProgress)
  /\ WF_vars(ConsumerProgress)

\* ---- claims ----
Reported == cqe_reads > 0
Terminated == ~alive
HasOutput(tag) == \E i \in 1 .. Len(output) : output[i].tag = tag

\* C1: the three harness steps happen in the strict order fault observed ->
\* kind overwritten -> trap region populated (fault_seq < mutate_seq <
\* populate_seq); the region is never populated while the descriptor's kind is
\* still the benign kind; a run that reports a result after a fault went
\* through all three.
C1_Ordering ==
  /\ mutate_seq > 0 => (0 < fault_seq /\ fault_seq < mutate_seq)
  /\ populate_seq > 0 => (0 < mutate_seq /\ mutate_seq < populate_seq)
  /\ region = "populated" => (populate_seq > 0 /\ sqes[0].opcode = "SENDMSG")
  /\ (Reported /\ fault_seq > 0) =>
        (fault_seq < mutate_seq /\ mutate_seq < populate_seq)

C1_Witness == Reported /\ fault_seq = 1 /\ mutate_seq = 2 /\ populate_seq = 3

\* C2: when the consumer faults on the trap region, its first read of the
\* kind returned RECVMSG, it makes no progress between its fault and the
\* populate, and every read of the kind after it resumed returns SENDMSG.
C2_DoubleFetch ==
  /\ cpc # "idle" => first_kind = "RECVMSG"
  /\ cpc = "blocked" => (second_kind = "none" /\ cq_ring_tail = 0)
  /\ cpc \in {"resumed", "acting"} => (region = "populated" /\ mutate_seq > 0)
  /\ second_kind \in {"none", "SENDMSG"}
  /\ second_kind = "SENDMSG" => (region = "populated" /\ mutate_seq < populate_seq)

C2_Witness ==
  cpc = "posted" /\ first_kind = "RECVMSG" /\ second_kind = "SENDMSG"

\* C3 (as claimed): a run that ends without any fault having been observed
\* ends in the distinguishable outcome RaceNotTriggered.
C3_RaceNotTriggered ==
  (Terminated /\ mpc = "returned" /\ fault_seq = 0 /\ cpc # "blocked")
     => HasOutput("RaceNotTriggered")

\* C4 (as claimed): if the consumer never posts a completion, main does not
\* stay in the wait for the completion for ever: the process terminates.
C4_BoundedWait == (cpc = "stalled") ~> Terminated

\* C5: once the consumer has faulted on the trap region, and as long as no
\* step fails, the run reaches the terminal state in which main has reported
\* a completion result and returned 0.
C5_Completes ==
  (cpc = "blocked") ~>
     (failed_step # "" \/
        (Terminated /\ mpc = "returned" /\ exit_code = ExitSuccess /\ Reported))

C5_Witness ==
  Terminated /\ mpc = "returned" /\ failed_step = "" /\ tpc = "done"
     /\ cqes[0].written

\* C6 (as claimed): whatever step failed, the terminal state has released the
\* trap registration and no consumer is left blocked on the unpopulated
\* region.
C6_AbortReleases ==
  (Terminated /\ failed_step # "") => (region # "armed" /\ cpc # "blocked")

\* C7: the exit code is 0 whenever the completion result was read and
\* printed, whatever its sign, and nonzero whenever a step failed.
C7_ExitCode ==
  /\ Reported => (Terminated /\ exit_code = ExitSuccess)
  /\ failed_step # "" => (Terminated /\ exit_code = ExitFailure /\ ~Reported)
  /\ Terminated => (Reported \/ failed_step # "")
  /\ (HasOutput("result") \/ HasOutput("result_error")) <=> Reported

C7_Witness ==
  Terminated /\ exit_code = ExitSuccess /\ HasOutput("result_error")

\* C8: the completion record that is read and reported was written by the
\* consumer for the submitted descriptor: its identity is the descriptor's.
C8_Identity ==
  mpc \in {"report", "returned"} =>
     /\ cqes[0].written
     /\ cqes[0].user_data = sqes[0].user_data
     /\ cpc = "posted"
     /\ sq_array[0] = 0

C8_Witness == Reported /\ cqes[0].written /\ cqes[0].res = MsgbufLen

\* C9: one single-slot race per run: the submission tail is advanced at most
\* once, from 0 to 1, only slot 0 is ever written, at most one descriptor is
\* in flight, at most one completion is posted, and main reads a completion
\* record at most once and only when the completion tail is exactly 1; a run
\* that reports has submitted exactly one descriptor and got exactly one
\* completion.
C9_SingleSlot ==
  /\ tail_writes <= 1 /\ sq_tail = tail_writes
  /\ sq_head <= sq_tail /\ sq_head <= ToSubmit
  /\ \A i \in Slots \ {0} : sqes[i] = ZeroSqe /\ cqes[i] = ZeroCqe
  /\ cq_ring_tail <= sq_head
  /\ cqe_reads <= 1
  /\ mpc \in {"report", "returned"} =>
        (cq_tail = ExpectedCqTail /\ cq_ring_tail = 1 /\ sq_tail = 1 /\ sq_head = 1)
  /\ failed_step = "expected cq_tail==1" =>
        (cq_tail # ExpectedCqTail /\ exit_code = ExitFailure /\ cqe_reads = 0)

C9_Witness == Reported /\ tail_writes = 1 /\ cq_ring_tail = 1 /\ cqe_reads = 1

\* C10: the submission tail is written only by main and the completion tail
\* only by the consumer; each write advances the cursor (it never decreases);
\* the slot written is the one the cursor indexes modulo the ring capacity.
C10_Step ==
  /\ sq_tail' # sq_tail =>
        /\ mpc = "advance_sq_tail" /\ mpc' = "io_uring_enter"
        /\ sq_tail' > sq_tail
        /\ consVars' = consVars /\ threadVars' = threadVars
  /\ cq_ring_tail' # cq_ring_tail =>
        /\ mainVars' = mainVars /\ threadVars' = threadVars
        /\ cpc' = "posted"
        /\ cq_ring_tail' = cq_ring_tail + 1
        /\ \A i \in Slots : i # cq_ring_tail % Entries => cqes'[i] = cqes[i]
        /\ cqes'[cq_ring_tail % Entries].written
  /\ cqes' # cqes => cq_ring_tail' = cq_ring_tail + 1
  /\ (mpc = "write_sqe" /\ mpc' # mpc) =>
        \A i \in Slots : i # sq_tail % Entries => sqes'[i] = sqes[i]

C10_Cursors == [][C10_Step]_vars

C10_Witness == sq_tail = 1 /\ cq_ring_tail = 1 /\ mpc = "in_enter"

\* C11: when the trap region is not armed (the registration failed), the run
\* fails at once with the registration error: the fault-wait thread is never
\* started, so none is left blocked, and no descriptor is submitted against
\* the unarmed region.
C11_Unarmed ==
  /\ region \in {"none", "mapped"} =>
        (tpc = "not_started" /\ sq_tail = 0 /\ cpc = "idle" /\ ~fault_pending)
  /\ failed_step = "UFFDIO_REGISTER" =>
        /\ Terminated /\ exit_code = ExitFailure
        /\ region = "mapped" /\ tpc = "not_started" /\ tail_writes = 0
        /\ output[Len(output)] = Msg("error", "UFFDIO_REGISTER")
  /\ tpc # "not_started" => region \in {"armed", "populated"}
  /\ sq_tail > 0 => region \in {"armed", "populated"}

C11_Witness == Terminated /\ failed_step = "UFFDIO_REGISTER" /\ region = "mapped"

\* C12: the trap region is populated at most once per run: a populate step
\* happens only on the armed, still missing page and stores exactly the bytes
\* supplied (vec); once the page is populated no later step populates it again
\* or changes its contents, and what the released consumer reads is those
\* bytes.
C12_Step ==
  /\ populate_seq' # populate_seq =>
        /\ populate_seq = 0 /\ region = "armed"
        /\ region' = "populated" /\ region_data' = vec
        /\ tpc = "copy" /\ tpc' = "return"
  /\ region = "populated" =>
        (region' = "populated" /\ region_data' = region_data
           /\ populate_seq' = populate_seq)
  /\ region_data' # region_data => populate_seq' # populate_seq
  /\ cpc' \in {"resumed", "acting"} => c_iov' = region_data'

C12_PopulateOnce == [][C12_Step]_vars

C12_Witness ==
  region = "populated" /\ tpc = "done" /\ cpc = "resumed"
     /\ c_iov = [iov_base |-> "msgbuf", iov_len |-> MsgbufLen]

\* C13: no silent failure: every terminal state of the process has emitted,
\* as the last thing printed, either the completion result line or an error
\* message naming the step that failed.
C13_NoSilentFailure ==
  Terminated =>
     /\ Len(output) > 0
     /\ \/ /\ failed_step = "" /\ mpc = "returned"
           /\ output[Len(output)].tag \in {"result", "result_error"}
           /\ output[Len(output)].val = cqes[0].res
        \/ /\ failed_step # ""
           /\ output[Len(output)] = Msg("error", failed_step)

C13_Witness ==
  Terminated /\ failed_step = "uffd read"
     /\ output[Len(output)] = Msg("error", "uffd read")

\* main is past its write of the whole descriptor (line 147)
MainWroteSqe ==
  mpc \in {"write_sq_array", "advance_sq_tail", "io_uring_enter", "in_enter",
           "read_cq_tail", "check_cq_tail", "report", "returned"}

\* C14: one writer at a time on the descriptor slot: every write of sqes[0] is
\* either main's write of the whole benign descriptor, made while the thread
\* has not yet overwritten the kind, or the thread's overwrite of the kind,
\* made after main's write has completed and changing the kind only; once the
\* kind is the malicious one no step writes the benign kind over it.
C14_Step ==
  /\ sqes' # sqes =>
        \/ /\ mpc = "write_sqe" /\ mpc' = "write_sq_array"
           /\ threadVars' = threadVars
           /\ mutate_seq = 0 /\ sqes[0] = ZeroSqe
           /\ sqes'[0].opcode = "RECVMSG"
        \/ /\ tpc = "mutate" /\ tpc' = "load_vec"
           /\ mainVars' = mainVars /\ MainWroteSqe
           /\ sqes[0].opcode = "RECVMSG"
           /\ sqes' = [sqes EXCEPT ![0].opcode = "SENDMSG"]
  /\ sqes[0].opcode = "SENDMSG" => sqes'[0].opcode = "SENDMSG"
  /\ mutate_seq' > 0 => MainWroteSqe'

C14_SingleWriter == [][C14_Step]_vars

C14_Witness ==
  mutate_seq > 0 /\ tpc = "load_vec" /\ mpc = "in_enter"
     /\ sqes[0] = [opcode |-> "SENDMSG", fd |-> "sock", addr |-> "msg",
                   user_data |-> 0]

\* C15: the kind is overwritten only on a descriptor that is submitted and
\* not yet completed: at the step that writes the malicious kind the
\* submission tail has been advanced, the consumer has fetched the descriptor
\* and is blocked on it, and no completion record has been posted for it.
C15_Step ==
  /\ mutate_seq' # mutate_seq =>
        /\ sq_tail = 1 /\ tail_writes = 1 /\ sq_head = 1
        /\ cpc = "blocked"
        /\ cq_ring_tail = 0 /\ ~cqes[0].written
        /\ sqes'[0].opcode = "SENDMSG"
  /\ (sqes'[0].opcode = "SENDMSG" /\ sqes[0].opcode # "SENDMSG") =>
        mutate_seq' # mutate_seq

C15_MutateInFlight == [][C15_Step]_vars

C15_Witness ==
  mutate_seq > 0 /\ tpc = "copy" /\ cpc = "blocked" /\ cq_ring_tail = 0
     /\ sq_tail = 1 /\ sqes[0].opcode = "SENDMSG"

\* the thread is at a point from which it goes on to service a fault
ThreadCanService == tpc \in {"read", "check_res", "mutate", "load_vec", "copy"}

\* C16: the fault-wait thread is started before the submission becomes
\* visible to the consumer (before the tail advance and the enter call); the
\* overwrite of the kind and the populate are steps of that thread, never of
\* main; and whenever the consumer is blocked on the armed page of a live
\* process, main being inside io_uring_enter or not, the thread is still on
\* its way to service the fault.
C16_Step ==
  /\ (tpc = "not_started" /\ tpc' # tpc) =>
        (mpc = "pthread_create" /\ mpc' = "socket" /\ sq_tail = 0)
  /\ (sq_tail' > 0 \/ mpc' = "in_enter") => tpc' # "not_started"
  /\ (mutate_seq' # mutate_seq \/ populate_seq' # populate_seq) =>
        (mainVars' = mainVars /\ tpc' # tpc)
  /\ (alive' /\ cpc' = "blocked" /\ region' = "armed") => ThreadCanService'

C16_HandlerReady == [][C16_Step]_vars

C16_Witness ==
  alive /\ mpc = "in_enter" /\ cpc = "blocked" /\ tpc = "read" /\ fault_pending

\* the io vector main builds at lines 137-138
FullIov == [iov_base |-> "msgbuf", iov_len |-> MsgbufLen]

\* C17: the true payload is never read before it is written: when the thread
\* reads real_iov both of main's assignments have been made, so vec, the
\* bytes populate places in the trap page and the io vector the released
\* consumer reads all describe the fully built message buffer, never the
\* zero-initialised or a half-assigned value.
C17_PayloadBuilt ==
  /\ tpc = "load_vec" => real_iov = FullIov
  /\ tpc \in {"copy", "return", "done"} => vec = FullIov
  /\ region = "populated" => region_data = FullIov
  /\ (cpc \in {"resumed", "acting"} \/ second_kind # "none") => c_iov = FullIov

C17_Witness ==
  region = "populated" /\ region_data = FullIov /\ cpc = "blocked"
     /\ tpc = "return"

====
